---- MODULE Spec2Model ----
(***************************************************************************)
(* Data-Storyteller: the analysis core (src/src/data_analyzer.py), the     *)
(* chart layer (src/src/visualizations.py), the narrative generator        *)
(* (src/src/ai_insights.py) and the upload flow of main() (app.py) as a    *)
(* state machine.                                                          *)
(*                                                                         *)
(* Representation.                                                         *)
(*   cell      <<>> is a missing cell (NaN / None), <<v>> holds value v.   *)
(*             Numeric values are integers; a text value is the integer    *)
(*             that ranks it in lexicographic order.                       *)
(*   column    [name, dtype, vals], vals a sequence of nrows cells.        *)
(*   table     [nrows, cols]: a pandas DataFrame, the row index kept apart *)
(*             from the columns (a frame may have rows and no column).     *)
(*   heap      the allocated tables, one slot per owner; a reference names *)
(*             a slot.                                                     *)
(*   float     <<n, d>> is the quotient n/d; <<0, 0>> is NaN, the value    *)
(*             IEEE arithmetic gives 0/0.  None is <<>>.                   *)
(*   dict      a sequence of <<key, value>> pairs in insertion order.      *)
(* Arithmetic on values is exact (quotients are compared by cross          *)
(* multiplication), so rounding of binary floating point is not modelled.  *)
(***************************************************************************)
EXTENDS Integers, Sequences, FiniteSets, TLC

VARIABLES
    heap,       \* the allocated DataFrames
    caller,     \* reference of the table main() read (app.py:69)
    analyzer,   \* <<>> or <<self>> of the DataAnalyzer
    viz,        \* <<>> or <<self>> of the VisualizationEngine
    ret,        \* [op, val]: the last call and what it returned
    patterns,   \* what the last two calls of detect_patterns returned, oldest first
    main        \* the run of main() (app.py): [pc, uploaded_file, options,
                \* analysis_results, page]

vars == <<heap, caller, analyzer, viz, ret, patterns, main>>

----------------------------------------------------------------------------
(* Bounds of the explored inputs *)

MaxLen == 4
MaxRows == 4
MaxRun == 10

----------------------------------------------------------------------------
(* Generic helpers *)

NA == <<>>
None == <<>>
NaN == <<0, 0>>

Range(s) == {s[i] : i \in 1..Len(s)}

RECURSIVE SumSeq(_)
SumSeq(s) ==
    IF s = <<>> THEN 0 ELSE Head(s) + SumSeq(Tail(s))

Abs(x) == IF x < 0 THEN -x ELSE x

Rep(v, k) == [i \in 1..k |-> v]

(* Series.isnull / pd.isna on one cell *)
isnull(c) == c = NA

(* Series.dropna(): the non-missing values, in row order *)
RECURSIVE dropna(_)
dropna(vals) ==
    IF vals = <<>> THEN <<>>
    ELSE IF isnull(Head(vals)) THEN dropna(Tail(vals))
    ELSE <<Head(vals)[1]>> \o dropna(Tail(vals))

(* DataFrame.empty: some axis has length 0 *)
empty(df) == df.nrows = 0 \/ Len(df.cols) = 0

(* DataFrame.select_dtypes(include=...).columns, column order kept *)
select_dtypes(df, include) ==
    SelectSeq(df.cols, LAMBDA c : c.dtype \in include)

(* np.number covers the integer and floating dtypes, not bool or object *)
np_number == {"int64", "float64"}

----------------------------------------------------------------------------
(* DataAnalyzer.basic_info *)

(* df.isnull().sum().to_dict(): per column, the number of missing cells *)
RECURSIVE count_null(_)
count_null(vals) ==
    IF vals = <<>> THEN 0
    ELSE (IF isnull(Head(vals)) THEN 1 ELSE 0) + count_null(Tail(vals))

missing_values(df) ==
    [k \in 1..Len(df.cols) |-> <<df.cols[k].name, count_null(df.cols[k].vals)>>]

Row(df, i) == [k \in 1..Len(df.cols) |-> df.cols[k].vals[i]]

(* The scan of DataFrame.duplicated(keep='first'), keeping only the count: *)
(* a row is marked when its tuple of cells was seen in an earlier row      *)
(* (two missing cells compare equal).                                      *)
RECURSIVE dup_scan_keep_all(_, _, _)
dup_scan_keep_all(df, i, seen) ==
    IF i > df.nrows THEN 0
    ELSE (IF \E j \in 1..df.nrows : j # i /\ Row(df, j) = Row(df, i) THEN 1 ELSE 0)
         + dup_scan_keep_all(df, i + 1, seen)

RECURSIVE dup_scan(_, _, _)
dup_scan(df, i, seen) ==
    IF i > df.nrows THEN 0
    ELSE (IF Row(df, i) \in seen THEN 1 ELSE 0)
         + dup_scan(df, i + 1, seen \cup {Row(df, i)})

(* int(df.duplicated().sum()); duplicated() of an empty frame is empty *)
duplicated_sum(df) ==
    IF empty(df) THEN 0 ELSE dup_scan(df, 1, {})

basic_info_of(df) ==
    [shape          |-> <<df.nrows, Len(df.cols)>>,
     columns        |-> [k \in 1..Len(df.cols) |-> df.cols[k].name],
     dtypes         |-> [k \in 1..Len(df.cols) |-> <<df.cols[k].name, df.cols[k].dtype>>],
     missing_values |-> missing_values(df),
     duplicate_rows |-> duplicated_sum(df)]

----------------------------------------------------------------------------
(* Exact quotients <<n, d>>; d = 0 only for NaN, which compares false *)

Int2F(v) == <<v, 1>>
isnan(a) == a[2] = 0
FSub(a, b) == <<a[1] * b[2] - b[1] * a[2], a[2] * b[2]>>
FMul(a, b) == <<a[1] * b[1], a[2] * b[2]>>
FSgn(a) == IF a[2] < 0 THEN <<-a[1], -a[2]>> ELSE a
FLt(a, b) ==
    /\ ~isnan(a) /\ ~isnan(b)
    /\ FSgn(a)[1] * FSgn(b)[2] < FSgn(b)[1] * FSgn(a)[2]
FGt(a, b) == FLt(b, a)
FEq(a, b) ==
    /\ ~isnan(a) /\ ~isnan(b)
    /\ a[1] * b[2] = b[1] * a[2]

(* A finite float whose value (an irrational moment ratio) is not kept *)
Finite == <<"finite">>

----------------------------------------------------------------------------
(* Series statistics of pandas, numpy and scipy, on the non-missing values *)

RECURSIVE insert_sorted(_, _)
insert_sorted(v, s) ==
    IF s = <<>> THEN <<v>>
    ELSE IF v < Head(s) THEN <<v>> \o s
    ELSE <<Head(s)>> \o insert_sorted(v, Tail(s))

RECURSIVE sorted(_)
sorted(s) ==
    IF s = <<>> THEN <<>> ELSE insert_sorted(Head(s), sorted(Tail(s)))

(* n*v - sum for each value: the deviations from the mean, times n *)
dev(s) ==
    LET n == Len(s)
        total == SumSeq(s)
    IN  [i \in 1..n |-> n * s[i] - total]

(* sum of squared deviations from the mean, times n*n *)
ssq(s) ==
    LET d == dev(s)
    IN  SumSeq([i \in 1..Len(s) |-> d[i] * d[i]])

mean(s) == <<SumSeq(s), Len(s)>>

median(s) ==
    LET o == sorted(s)
        n == Len(s)
    IN  IF n % 2 = 1 THEN Int2F(o[(n + 1) \div 2])
        ELSE <<o[n \div 2] + o[n \div 2 + 1], 2>>

(* Series.std(): ddof = 1.  The field holds the variance, the square of   *)
(* the deviation: ssq / (n*n*(n-1)), which is 0/0 = NaN for one value.     *)
std_ddof0(s) == <<ssq(s), Len(s) * Len(s) * Len(s)>>

std(s) == <<ssq(s), Len(s) * Len(s) * (Len(s) - 1)>>

min(s) == Int2F(sorted(s)[1])
max(s) == Int2F(sorted(s)[Len(s)])

(* Series.quantile(q), q = qn/qd, interpolation='linear': the position is  *)
(* (n-1)*q on the sorted values, counted from 0.                           *)
quantile(s, qn, qd) ==
    LET o  == sorted(s)
        h  == (Len(s) - 1) * qn
        lo == h \div qd
        fr == h % qd
    IN  IF fr = 0 THEN <<qd * o[lo + 1], qd>>
        ELSE <<qd * o[lo + 1] + fr * (o[lo + 2] - o[lo + 1]), qd>>

(* scipy.stats.skew / kurtosis: a moment ratio; for constant data (second  *)
(* moment 0) the ratio is 0/0, which scipy reports as NaN, and releases    *)
(* before 1.9 as 0 (kurtosis: 0 - 3).                                      *)
stats_skew(s, nan_on_constant) ==
    IF ssq(s) = 0 THEN (IF nan_on_constant THEN NaN ELSE Int2F(0))
    ELSE Finite

stats_kurtosis(s, nan_on_constant) ==
    IF ssq(s) = 0 THEN (IF nan_on_constant THEN NaN ELSE Int2F(-3))
    ELSE Finite

----------------------------------------------------------------------------
(* DataAnalyzer._detect_outliers *)

detect_outliers_no_iqr_guard(series) ==
    LET Q1 == quantile(series, 1, 4)
        Q3 == quantile(series, 3, 4)
        IQR == FSub(Q3, Q1)
        lower_bound == FSub(Q1, FMul(<<3, 2>>, IQR))
        upper_bound == FSub(Q3, FMul(<<-3, 2>>, IQR))
    IN  IF series = <<>> THEN 0
        ELSE Len(SelectSeq(series, LAMBDA v : FLt(Int2F(v), lower_bound) \/ FGt(Int2F(v), upper_bound)))

detect_outliers(series) ==
    LET Q1 == quantile(series, 1, 4)
        Q3 == quantile(series, 3, 4)
        IQR == FSub(Q3, Q1)
        lower_bound == FSub(Q1, FMul(<<3, 2>>, IQR))
        upper_bound == FSub(Q3, FMul(<<-3, 2>>, IQR))
    IN  IF series = <<>> THEN 0
        ELSE IF FEq(IQR, Int2F(0)) THEN 0
        ELSE Len(SelectSeq(series, LAMBDA v : FLt(Int2F(v), lower_bound) \/ FGt(Int2F(v), upper_bound)))

----------------------------------------------------------------------------
(* DataAnalyzer.statistical_summary *)

numeric_summary(vals, nan_on_constant) ==
    LET col_series == dropna(vals)
    IN  IF col_series = <<>>
        THEN [mean |-> None, median |-> None, std |-> None, min |-> None,
              max |-> None, skewness |-> None, kurtosis |-> None,
              outliers_count |-> 0]
        ELSE [mean     |-> mean(col_series),
              median   |-> median(col_series),
              std      |-> std(col_series),
              min      |-> min(col_series),
              max      |-> max(col_series),
              skewness |-> IF Len(col_series) > 1
                           THEN stats_skew(col_series, nan_on_constant)
                           ELSE Int2F(0),
              kurtosis |-> IF Len(col_series) > 1
                           THEN stats_kurtosis(col_series, nan_on_constant)
                           ELSE Int2F(0),
              outliers_count |-> detect_outliers(col_series)]

(* The distinct non-missing values in first-encountered order (the order  *)
(* of pandas' hash table)                                                  *)
RECURSIVE unique(_, _)
unique(s, acc) ==
    IF s = <<>> THEN acc
    ELSE IF Head(s) \in Range(acc) THEN unique(Tail(s), acc)
    ELSE unique(Tail(s), Append(acc, Head(s)))

count_of(s, v) == Len(SelectSeq(s, LAMBDA x : x = v))

(* Stable sort of <<value, count>> pairs by descending count *)
RECURSIVE insert_desc(_, _)
insert_desc(p, s) ==
    IF s = <<>> THEN <<p>>
    ELSE IF Head(s)[2] >= p[2] THEN <<Head(s)>> \o insert_desc(p, Tail(s))
    ELSE <<p>> \o s

RECURSIVE sort_desc(_, _)
sort_desc(s, acc) ==
    IF s = <<>> THEN acc ELSE sort_desc(Tail(s), insert_desc(Head(s), acc))

(* Series.value_counts(dropna=True): descending frequency, ties in         *)
(* first-encountered order                                                 *)
value_counts_of(s) ==
    LET u == unique(s, <<>>)
    IN  sort_desc([i \in 1..Len(u) |-> <<u[i], count_of(s, u[i])>>], <<>>)

value_counts(vals) == value_counts_of(dropna(vals))

head(s, n) == IF Len(s) <= n THEN s ELSE SubSeq(s, 1, n)

(* Series.mode(): the values of highest frequency, missing ones dropped,   *)
(* returned sorted ascending                                               *)
mode_unsorted(vals) ==
    LET vc == value_counts(vals)
        top == SelectSeq(vc, LAMBDA p : p[2] = vc[1][2])
    IN  [i \in 1..Len(top) |-> top[i][1]]

mode(vals) == sorted(mode_unsorted(vals))

nunique_keepna(vals) == Len(unique(vals, <<>>))

nunique(vals) == Len(unique(dropna(vals), <<>>))

categorical_summary(vals) ==
    LET col_series == vals
        modes == mode(col_series)
        mode_val == IF modes # <<>> THEN <<modes[1]>> ELSE None
    IN  [unique_count  |-> nunique(col_series),
         most_frequent |-> mode_val,
         value_counts  |-> head(value_counts(col_series), 10)]

statistical_summary_of(df, nan_on_constant) ==
    LET numeric_cols == select_dtypes(df, np_number)
        categorical_cols == select_dtypes(df, {"object", "category"})
    IN  [numerical   |-> [k \in 1..Len(numeric_cols) |->
                            <<numeric_cols[k].name,
                              numeric_summary(numeric_cols[k].vals, nan_on_constant)>>],
         categorical |-> [k \in 1..Len(categorical_cols) |->
                            <<categorical_cols[k].name,
                              categorical_summary(categorical_cols[k].vals)>>]]

----------------------------------------------------------------------------
(* DataAnalyzer.detect_patterns *)

RECURSIVE Concat(_)
Concat(ss) ==
    IF ss = <<>> THEN <<>> ELSE Head(ss) \o Concat(Tail(ss))

(* The rows where neither column is missing (pairwise-complete rows) *)
pair_rows(x, y) ==
    SelectSeq([i \in 1..Len(x) |-> i], LAMBDA i : ~isnull(x[i]) /\ ~isnull(y[i]))

(* DataFrame.corr(): Pearson r over the pairwise-complete rows, NaN when   *)
(* a variance is 0 or no row is left.  Kept as r*|r| = cov*|cov|/(vx*vy),  *)
(* which has the sign of r and orders as r does.                           *)
corr(x, y) ==
    LET rows == pair_rows(x, y)
        n   == Len(rows)
        xs  == [k \in 1..n |-> x[rows[k]][1]]
        ys  == [k \in 1..n |-> y[rows[k]][1]]
        cov == n * SumSeq([k \in 1..n |-> xs[k] * ys[k]]) - SumSeq(xs) * SumSeq(ys)
        vx  == n * SumSeq([k \in 1..n |-> xs[k] * xs[k]]) - SumSeq(xs) * SumSeq(xs)
        vy  == n * SumSeq([k \in 1..n |-> ys[k] * ys[k]]) - SumSeq(ys) * SumSeq(ys)
    IN  <<cov * Abs(cov), vx * vy>>

(* abs(corr_val) of the kept r*|r| *)
fabs(a) == <<Abs(a[1]), a[2]>>

(* Lines 86-96: the pairs i < j in row-major order *)
RECURSIVE corr_loop_from_i(_, _, _)
corr_loop_from_i(cols, i, j) ==
    IF i > Len(cols) THEN <<>>
    ELSE IF j > Len(cols) THEN corr_loop_from_i(cols, i + 1, i + 1)
    ELSE LET corr_val == corr(cols[i].vals, cols[j].vals)
         IN  (IF isnan(corr_val) THEN <<>>
              ELSE IF FGt(fabs(corr_val), <<49, 100>>)
                   THEN <<[var1 |-> cols[i].name, var2 |-> cols[j].name,
                           correlation |-> corr_val]>>
                   ELSE <<>>)
             \o corr_loop_from_i(cols, i, j + 1)

RECURSIVE corr_loop(_, _, _)
corr_loop(cols, i, j) ==
    IF i > Len(cols) THEN <<>>
    ELSE IF j > Len(cols) THEN corr_loop(cols, i + 1, i + 2)
    ELSE LET corr_val == corr(cols[i].vals, cols[j].vals)
         IN  (IF isnan(corr_val) THEN <<>>
              ELSE IF FGt(fabs(corr_val), <<49, 100>>)
                   THEN <<[var1 |-> cols[i].name, var2 |-> cols[j].name,
                           correlation |-> corr_val]>>
                   ELSE <<>>)
             \o corr_loop(cols, i, j + 1)

correlations(numeric_df) ==
    IF Len(numeric_df) > 1 THEN corr_loop(numeric_df, 1, 2) ELSE <<>>

(* ser.diff().dropna(): the successive differences *)
diff(ser) == [i \in 1..(Len(ser) - 1) |-> ser[i + 1] - ser[i]]

(* all(diffs > 0), all(diffs < 0) *)
all_gt0(s) == \A i \in 1..Len(s) : s[i] > 0
all_lt0(s) == \A i \in 1..Len(s) : s[i] < 0
all_ge0(s) == \A i \in 1..Len(s) : s[i] >= 0
all_le0(s) == \A i \in 1..Len(s) : s[i] <= 0

trend_nonstrict(col) ==
    LET ser == dropna(col.vals)
        diffs == diff(ser)
    IN  IF Len(ser) >= 3
        THEN IF all_ge0(diffs)
             THEN <<[column |-> col.name, trend |-> "increasing"]>>
             ELSE IF all_le0(diffs)
                  THEN <<[column |-> col.name, trend |-> "decreasing"]>>
                  ELSE <<>>
        ELSE <<>>

trend(col) ==
    LET ser == dropna(col.vals)
        diffs == diff(ser)
    IN  IF Len(ser) >= 3
        THEN IF all_gt0(diffs)
             THEN <<[column |-> col.name, trend |-> "increasing"]>>
             ELSE IF all_lt0(diffs)
                  THEN <<[column |-> col.name, trend |-> "decreasing"]>>
                  ELSE <<>>
        ELSE <<>>

(* scipy.stats.zscore(ser): (v - mean) / std with ddof = 0.  Kept as the   *)
(* square n*(n*v - sum)^2 / ssq, which is 0/0 = NaN for constant data.     *)
zscore_ddof1(ser) ==
    LET d == dev(ser)
        q == ssq(ser)
    IN  [i \in 1..Len(ser) |-> <<(Len(ser) - 1) * d[i] * d[i], q>>]

zscore(ser) ==
    LET d == dev(ser)
        q == ssq(ser)
    IN  [i \in 1..Len(ser) |-> <<Len(ser) * d[i] * d[i], q>>]

anomaly(col) ==
    LET ser == dropna(col.vals)
        zscores == zscore(ser)
        anomalies == Len(SelectSeq(zscores, LAMBDA z : FGt(z, Int2F(9))))
    IN  IF Len(ser) > 5
        THEN IF anomalies > 0
             THEN <<[column |-> col.name, anomalies_count |-> anomalies]>>
             ELSE <<>>
        ELSE <<>>

detect_patterns_of(df) ==
    LET numeric_df == select_dtypes(df, np_number)
    IN  [correlations |-> correlations(numeric_df),
         trends       |-> Concat([k \in 1..Len(numeric_df) |-> trend(numeric_df[k])]),
         anomalies    |-> Concat([k \in 1..Len(numeric_df) |-> anomaly(numeric_df[k])])]

----------------------------------------------------------------------------
(* VisualizationEngine: each chart is kept as the data handed to plotly *)

create_overview_charts_of(df) ==
    LET dtype_counts == value_counts_of([k \in 1..Len(df.cols) |-> df.cols[k].dtype])
        missing_counts == missing_values(df)
        total == SumSeq([k \in 1..Len(missing_counts) |-> missing_counts[k][2]])
        fig_dtypes == [title |-> "Data Types Distribution", data |-> dtype_counts]
        fig_missing == [title |-> "Missing Values by Column",
                        data |-> sort_desc(SelectSeq(missing_counts, LAMBDA p : p[2] > 0), <<>>)]
    IN  IF total > 0 THEN <<fig_dtypes, fig_missing>> ELSE <<fig_dtypes>>

create_numerical_analysis_of(df) ==
    LET numeric_cols == select_dtypes(df, np_number)
        shown == head(numeric_cols, 5)
        fig_dist == [k \in 1..Len(shown) |->
                        [title |-> "Distribution of", data |-> <<shown[k].name>>]]
        corr_matrix == [i \in 1..Len(numeric_cols) |->
                          [j \in 1..Len(numeric_cols) |->
                              corr(numeric_cols[i].vals, numeric_cols[j].vals)]]
    IN  IF Len(numeric_cols) > 1
        THEN Append(fig_dist, [title |-> "Correlation Matrix", data |-> corr_matrix])
        ELSE fig_dist

create_categorical_analysis_of(df) ==
    LET categorical_cols == select_dtypes(df, {"object", "category"})
        shown == head(categorical_cols, 3)
    IN  [k \in 1..Len(shown) |->
            [title |-> "Top Values in",
             data |-> <<shown[k].name, head(value_counts(shown[k].vals), 10)>>]]

create_relationship_charts_of(df) ==
    LET numeric_cols == select_dtypes(df, np_number)
    IN  IF Len(numeric_cols) >= 2
        THEN <<[title |-> "vs", data |-> <<numeric_cols[1].name, numeric_cols[2].name>>]>>
        ELSE <<>>

----------------------------------------------------------------------------
(* Objects.  The heap has one slot per owner of a DataFrame: the table     *)
(* main() read, DataAnalyzer.df and VisualizationEngine.df; <<>> is a slot *)
(* not allocated yet.  A method takes the heap and self and gives the heap *)
(* and self it leaves behind and the value it returns.                     *)

CallerRef == "caller"
Refs == {"caller", "analyzer", "viz"}

(* DataFrame.copy(): a new object holding the same cells *)
df_copy(h, ref, slot) == [h EXCEPT ![slot] = <<h[ref][1]>>]

DataAnalyzer_init_alias(h, df) ==
    [heap |-> h,
     self |-> [df |-> df, analysis_results |-> <<>>]]

DataAnalyzer_init(h, df) ==
    [heap |-> df_copy(h, df, "analyzer"),
     self |-> [df |-> "analyzer", analysis_results |-> <<>>]]

VisualizationEngine_init(h, df) ==
    [heap |-> df_copy(h, df, "viz"),
     self |-> [df |-> "viz"]]

Deref(h, ref) == h[ref][1]

basic_info(h, self) ==
    [heap |-> h, self |-> self, ret |-> basic_info_of(Deref(h, self.df))]

(* self.df.dropna(inplace=True): the rows with a missing cell are dropped *)
df_dropna_rows(df) ==
    LET keep == SelectSeq([i \in 1..df.nrows |-> i],
                          LAMBDA i : \A k \in 1..Len(df.cols) : df.cols[k].vals[i] # NA)
    IN  [nrows |-> Len(keep),
         cols |-> [k \in 1..Len(df.cols) |->
                     [df.cols[k] EXCEPT !.vals = [i \in 1..Len(keep) |-> df.cols[k].vals[keep[i]]]]]]

statistical_summary_inplace(h, self, nan_on_constant) ==
    [heap |-> [h EXCEPT ![self.df] = <<df_dropna_rows(Deref(h, self.df))>>],
     self |-> self,
     ret |-> statistical_summary_of(df_dropna_rows(Deref(h, self.df)), nan_on_constant)]

statistical_summary(h, self, nan_on_constant) ==
    [heap |-> h, self |-> self,
     ret |-> statistical_summary_of(Deref(h, self.df), nan_on_constant)]

detect_patterns(h, self) ==
    [heap |-> h, self |-> self, ret |-> detect_patterns_of(Deref(h, self.df))]

create_overview_charts(h, self) ==
    [heap |-> h, self |-> self, ret |-> create_overview_charts_of(Deref(h, self.df))]

create_numerical_analysis(h, self) ==
    [heap |-> h, self |-> self, ret |-> create_numerical_analysis_of(Deref(h, self.df))]

create_categorical_analysis(h, self) ==
    [heap |-> h, self |-> self, ret |-> create_categorical_analysis_of(Deref(h, self.df))]

create_relationship_charts(h, self) ==
    [heap |-> h, self |-> self, ret |-> create_relationship_charts_of(Deref(h, self.df))]

----------------------------------------------------------------------------
(* The explored tables *)

Col(name, dtype, vals) == [name |-> name, dtype |-> dtype, vals |-> vals]

Table(cols) == [nrows |-> Len(cols[1].vals), cols |-> cols]

Cells(D) == {NA} \cup {<<v>> : v \in D}

SeqsUpTo(D, n) == UNION {[1..k -> D] : k \in 0..n}

(* One column, numeric or text, of up to MaxLen cells, and columns that    *)
(* need larger values or more distinct values than the enumeration holds.  *)
ExampleColumns ==
    { <<<<1>>, <<2>>, <<3>>, <<4>>, <<5>>, <<100>>>>,
      <<<<0>>, <<0>>, <<1>>, <<2>>, <<5>>>>,
      <<<<5>>, <<2>>, NA, <<0>>, <<1>>, <<0>>>>,
      <<<<1>>, <<1>>, <<3>>, <<1>>, <<1>>, <<0>>>>,
      [i \in 1..12 |-> <<12 - i>>] }

ColumnTables ==
    { Table(<<Col("x", dt, vals)>>) :
        dt \in {"float64", "object"},
        vals \in SeqsUpTo(Cells(0..2), MaxLen) \cup ExampleColumns }

(* One numeric column: a run of equal values, then up to two other cells *)
AnomalyTables ==
    { Table(<<Col("x", "float64", Rep(<<0>>, k) \o tail)>>) :
        k \in 4..MaxRun,
        tail \in SeqsUpTo(Cells({0, 1, 4}), 2) }

(* Several columns of MaxRows rows.  The first is a ramp 0, 1, 2, ... (its *)
(* first or last cell possibly missing), a constant or all missing; the    *)
(* second is                                                               *)
(* any column of 0 and 1 with at most one cell missing; a third column may *)
(* follow.                                                                 *)
Ramp(n) == [i \in 1..n |-> <<i - 1>>]

FirstColumns(n) ==
    {Ramp(n), Rep(<<1>>, n), Rep(NA, n)}
    \cup {[Ramp(n) EXCEPT ![k] = NA] : k \in {1, n}}

SecondColumns(n) ==
    [1..n -> {<<0>>, <<1>>}]
    \cup {[y EXCEPT ![k] = NA] : y \in [1..n -> {<<0>>, <<1>>}], k \in 1..n}

ThirdColumns(n) ==
    { <<>>,
      <<Col("c", "float64", [i \in 1..n |-> <<n - i>>])>>,
      <<Col("c", "bool", [i \in 1..n |-> <<i % 2>>])>>,
      <<Col("c", "object", [i \in 1..n |-> IF i = 1 THEN NA ELSE <<i % 2>>])>> }

GeneralTables ==
    { Table(<<Col("a", "float64", x), Col("b", "float64", y)>> \o third) :
        x \in FirstColumns(MaxRows),
        y \in SecondColumns(MaxRows),
        third \in ThirdColumns(MaxRows) }
    \cup { [nrows |-> n, cols |-> <<>>] : n \in 0..MaxRows }
    \cup { Table(<<Col("a", dt, <<>>)>>) : dt \in {"float64", "object"} }

----------------------------------------------------------------------------
(* The state machine *)

(* main() is not running: the objects are driven call by call *)
MainIdle ==
    [pc |-> "idle", uploaded_file |-> <<>>, options |-> <<>>,
     analysis_results |-> <<>>, page |-> <<>>]

InitWith(tables) ==
    /\ \E t \in tables :
          heap = [r \in Refs |-> IF r = CallerRef THEN <<t>> ELSE <<>>]
    /\ caller = CallerRef
    /\ analyzer = <<>>
    /\ viz = <<>>
    /\ ret = [op |-> "none", val |-> <<>>]
    /\ patterns = <<>>
    /\ main = MainIdle

Init == InitWith(GeneralTables)
InitColumn == InitWith(ColumnTables)
InitAnomaly == InitWith(AnomalyTables)

(* app.py:91  analyzer = DataAnalyzer(df) *)
NewDataAnalyzer ==
    /\ analyzer = <<>>
    /\ LET r == DataAnalyzer_init(heap, caller)
       IN  /\ heap' = r.heap
           /\ analyzer' = <<r.self>>
    /\ UNCHANGED <<main, caller, viz, ret, patterns>>

(* app.py:209  viz_engine = VisualizationEngine(df) *)
NewVisualizationEngine ==
    /\ viz = <<>>
    /\ LET r == VisualizationEngine_init(heap, caller)
       IN  /\ heap' = r.heap
           /\ viz' = <<r.self>>
    /\ UNCHANGED <<main, caller, analyzer, ret, patterns>>

BasicInfo ==
    /\ analyzer # <<>>
    /\ LET r == basic_info(heap, analyzer[1])
       IN  /\ heap' = r.heap
           /\ analyzer' = <<r.self>>
           /\ ret' = [op |-> "basic_info", val |-> r.ret]
    /\ UNCHANGED <<main, caller, viz, patterns>>

StatisticalSummary ==
    /\ analyzer # <<>>
    /\ \E nan_on_constant \in BOOLEAN :
          LET r == statistical_summary(heap, analyzer[1], nan_on_constant)
          IN  /\ heap' = r.heap
              /\ analyzer' = <<r.self>>
              /\ ret' = [op |-> "statistical_summary", val |-> r.ret]
    /\ UNCHANGED <<main, caller, viz, patterns>>

DetectPatterns ==
    /\ analyzer # <<>>
    /\ LET r == detect_patterns(heap, analyzer[1])
       IN  /\ heap' = r.heap
           /\ analyzer' = <<r.self>>
           /\ ret' = [op |-> "detect_patterns", val |-> r.ret]
           /\ patterns' = IF patterns = <<>> THEN <<r.ret>>
                          ELSE <<patterns[Len(patterns)], r.ret>>
    /\ UNCHANGED <<main, caller, viz>>

CreateOverviewCharts ==
    /\ viz # <<>>
    /\ LET r == create_overview_charts(heap, viz[1])
       IN  /\ heap' = r.heap
           /\ viz' = <<r.self>>
           /\ ret' = [op |-> "create_overview_charts", val |-> r.ret]
    /\ UNCHANGED <<main, caller, analyzer, patterns>>

CreateNumericalAnalysis ==
    /\ viz # <<>>
    /\ LET r == create_numerical_analysis(heap, viz[1])
       IN  /\ heap' = r.heap
           /\ viz' = <<r.self>>
           /\ ret' = [op |-> "create_numerical_analysis", val |-> r.ret]
    /\ UNCHANGED <<main, caller, analyzer, patterns>>

CreateCategoricalAnalysis ==
    /\ viz # <<>>
    /\ LET r == create_categorical_analysis(heap, viz[1])
       IN  /\ heap' = r.heap
           /\ viz' = <<r.self>>
           /\ ret' = [op |-> "create_categorical_analysis", val |-> r.ret]
    /\ UNCHANGED <<main, caller, analyzer, patterns>>

CreateRelationshipCharts ==
    /\ viz # <<>>
    /\ LET r == create_relationship_charts(heap, viz[1])
       IN  /\ heap' = r.heap
           /\ viz' = <<r.self>>
           /\ ret' = [op |-> "create_relationship_charts", val |-> r.ret]
    /\ UNCHANGED <<main, caller, analyzer, patterns>>

Next ==
    \/ NewDataAnalyzer
    \/ NewVisualizationEngine
    \/ BasicInfo
    \/ StatisticalSummary
    \/ DetectPatterns
    \/ CreateOverviewCharts
    \/ CreateNumericalAnalysis
    \/ CreateCategoricalAnalysis
    \/ CreateRelationshipCharts

Spec == Init /\ [][Next]_vars
SpecColumn == InitColumn /\ [][Next]_vars
SpecAnomaly == InitAnomaly /\ [][Next]_vars

----------------------------------------------------------------------------
(* The upload flow and the pipeline of main() (app.py:19-123).             *)
(*                                                                         *)
(*   file name   a sequence of tokens; "." is the dot, every other token   *)
(*               a run of characters without dot or path separator.        *)
(*   Python value  [type, text]: the type's name and, for a str, a tag for *)
(*               its text.                                                 *)
(*   page        the Streamlit calls made so far, [st, body], in order.    *)

(* config/settings.py *)
MAX_FILE_SIZE == 200
SUPPORTED_FORMATS == {<<".", "csv">>}

(* 1024**2, the bytes of one MB in check_file_size_bytes *)
MiB == 1048576

(* Bounds of the explored uploads *)
MaxName == 3
MaxDelta == 1

(* str.lower() *)
lower(s) == [i \in 1..Len(s) |-> IF s[i] = "CSV" THEN "csv" ELSE s[i]]

(* os.path.splitext: the extension starts at the last dot, unless only     *)
(* dots precede it                                                         *)
splitext(p) ==
    LET dots == {i \in 1..Len(p) : p[i] = "."}
        dotIndex == IF dots = {} THEN 0
                    ELSE CHOOSE i \in dots : \A j \in dots : j <= i
    IN  IF dotIndex > 0 /\ \E i \in 1..(dotIndex - 1) : p[i] # "."
        THEN <<SubSeq(p, 1, dotIndex - 1), SubSeq(p, dotIndex, Len(p))>>
        ELSE <<p, <<>>>>

allowed_file(filename) ==
    IF filename = <<>>
    THEN FALSE
    ELSE LET ext == splitext(filename)[2]
         IN  lower(ext) \in SUPPORTED_FORMATS

check_file_size_bytes_floor_mb(file_size_bytes) ==
    IF file_size_bytes \div MiB > MAX_FILE_SIZE
    THEN <<FALSE, "exceeds the maximum allowed">>
    ELSE <<TRUE, "within allowed limit">>

check_file_size_bytes(file_size_bytes) ==
    LET max_mb == MAX_FILE_SIZE
        size_mb == <<file_size_bytes, MiB>>
    IN  IF FGt(size_mb, Int2F(max_mb))
        THEN <<FALSE, "exceeds the maximum allowed">>
        ELSE <<TRUE, "within allowed limit">>

(* Python values *)
Str(text) == [type |-> "str", text |-> text]
PyNone == [type |-> "NoneType", text |-> ""]

(* Parsed JSON: a dict is a sequence of <<key, value>> pairs *)
JsonDict(items) == [kind |-> "dict", items |-> items]
JsonList == [kind |-> "list", items |-> <<>>]

isinstance_dict(data) == data.kind = "dict"
has_key(data, key) == \E i \in 1..Len(data.items) : data.items[i][1] = key
getitem(data, key) ==
    data.items[CHOOSE i \in 1..Len(data.items) : data.items[i][1] = key][2]

(* json.dumps(data, indent=2) *)
json_dumps(data) == Str("json")

(* What requests.post, raise_for_status and resp.json do (lines 19-21):    *)
(* raise, or give the parsed body.  A body that is not JSON raises         *)
(* requests' JSONDecodeError (a RequestException) from requests 2.27 on    *)
(* and a plain ValueError before.                                          *)
RequestExceptions == {"ConnectionError", "Timeout", "HTTPError", "JSONDecodeError"}

JsonBodies ==
    { JsonDict(<<<<"response", Str("generated")>>>>),
      JsonDict(<<<<"response", PyNone>>>>),
      JsonDict(<<<<"output", Str("generated")>>>>),
      JsonDict(<<<<"text", Str("generated")>>>>),
      JsonDict(<<<<"error", Str("model not found")>>>>),
      JsonList }

Replies ==
    {[exc |-> <<e>>, data |-> <<>>] : e \in RequestExceptions \cup {"ValueError"}}
    \cup {[exc |-> <<>>, data |-> <<d>>] : d \in JsonBodies}

call_ollama(reply) ==
    IF reply.exc # <<>>
    THEN IF reply.exc[1] \in RequestExceptions
         THEN Str("Error generating insights")
         ELSE Str("Unexpected error calling Ollama")
    ELSE LET data == reply.data[1]
         IN  IF isinstance_dict(data) /\ has_key(data, "response")
             THEN getitem(data, "response")
             ELSE IF isinstance_dict(data) /\ has_key(data, "output")
             THEN getitem(data, "output")
             ELSE IF isinstance_dict(data) /\ has_key(data, "text")
             THEN getitem(data, "text")
             ELSE json_dumps(data)

(* The prompt is built from analysis_results; the reply is the service's *)
generate_data_story(analysis_results, reply) == call_ollama(reply)
suggest_visualizations(analysis_results, reply) == call_ollama(reply)
suggest_next_steps(analysis_results, reply) == call_ollama(reply)

(* Streamlit calls *)
st_error(text) == [st |-> "error", body |-> text]
st_info(text) == [st |-> "info", body |-> text]
st_success(text) == [st |-> "success", body |-> text]
st_write(value) == [st |-> "write", body |-> <<value.type>>]
st_plotly_chart(chart) == [st |-> "plotly_chart", body |-> <<chart.title>>]
st_section(title) == [st |-> "subheader", body |-> <<title>>]

(* The explored uploads: names of up to MaxName tokens, sizes around the   *)
(* limit.  has_size: the object has a size attribute; closed: seek and     *)
(* tell raise ValueError.                                                  *)
NameTokens == {"a", ".", "csv", "CSV"}

Sizes == {0, 1} \cup {MAX_FILE_SIZE * MiB + d : d \in (-MaxDelta)..MaxDelta}

UploadedFiles ==
    [name : SeqsUpTo(NameTokens, MaxName), size : Sizes,
     has_size : BOOLEAN, closed : BOOLEAN]

Options ==
    [include_visualizations : BOOLEAN, include_ai_insights : BOOLEAN,
     include_suggestions : BOOLEAN]

(* The tables the explored files hold *)
MainTables ==
    { Table(<<Col("a", "float64", Ramp(MaxRows)), Col("b", "float64", Ramp(MaxRows))>>),
      Table(<<Col("a", "float64", Rep(<<1>>, MaxRows)),
              Col("c", "object", [i \in 1..MaxRows |-> IF i = 1 THEN NA ELSE <<i % 2>>])>>),
      Table(<<Col("c", "bool", [i \in 1..MaxRows |-> <<i % 2>>])>>),
      Table(<<Col("a", "object", <<>>)>>) }

(* pd.read_csv: an empty file raises EmptyDataError, a one-byte file is a  *)
(* header without rows, any other holds a table or does not parse          *)
read_csv(f) ==
    IF f.size = 0
    THEN {[exc |-> <<"EmptyDataError">>, df |-> <<>>]}
    ELSE IF f.size = 1
    THEN {[exc |-> <<>>, df |-> <<Table(<<Col("a", "object", <<>>)>>)>>]}
    ELSE {[exc |-> <<"ParserError">>, df |-> <<>>]}
         \cup {[exc |-> <<>>, df |-> <<t>>] : t \in MainTables}

InitMain ==
    /\ heap = [r \in Refs |-> <<>>]
    /\ caller = CallerRef
    /\ analyzer = <<>>
    /\ viz = <<>>
    /\ ret = [op |-> "none", val |-> <<>>]
    /\ patterns = <<>>
    /\ \E uploaded_file \in {None} \cup {<<f>> : f \in UploadedFiles}, options \in Options :
          main = [pc |-> "upload", uploaded_file |-> uploaded_file, options |-> options,
                  analysis_results |-> <<>>, page |-> <<>>]

(* app.py:125-141  no file uploaded: the landing page *)
LandingPage ==
    /\ main.pc = "upload"
    /\ main.uploaded_file = None
    /\ main' = [main EXCEPT !.pc = "done", !.page = main.page \o <<st_info(<<"Tip">>)>>]
    /\ UNCHANGED <<heap, caller, analyzer, viz, ret, patterns>>

(* app.py:44-47 *)
CheckExtension ==
    /\ main.pc = "upload"
    /\ main.uploaded_file # None
    /\ LET filename == main.uploaded_file[1].name
       IN  IF ~allowed_file(filename)
           THEN main' = [main EXCEPT
                           !.pc = "returned",
                           !.page = main.page \o <<st_error(<<"Unsupported file format">>)>>]
           ELSE main' = [main EXCEPT !.pc = "size"]
    /\ UNCHANGED <<heap, caller, analyzer, viz, ret, patterns>>

(* app.py:49-63  the size is the size attribute or, without one, what      *)
(* seek and tell measure; an exception of the measurement skips the check  *)
CheckSize ==
    /\ main.pc = "size"
    /\ LET f == main.uploaded_file[1]
           file_size == IF f.has_size THEN <<f.size>>
                        ELSE IF f.closed THEN <<>> ELSE <<f.size>>
       IN  IF file_size = <<>>
           THEN main' = [main EXCEPT !.pc = "load"]
           ELSE LET r == check_file_size_bytes(file_size[1])
                IN  IF ~r[1]
                    THEN main' = [main EXCEPT
                                    !.pc = "returned",
                                    !.page = main.page \o <<st_error(<<r[2]>>)>>]
                    ELSE main' = [main EXCEPT !.pc = "load"]
    /\ UNCHANGED <<heap, caller, analyzer, viz, ret, patterns>>

(* app.py:65-87, 122-123  seek(0) and read_csv; what either raises is      *)
(* reported by the handler of line 122                                     *)
LoadData ==
    /\ main.pc = "load"
    /\ LET f == main.uploaded_file[1]
       IN  IF f.closed
           THEN /\ main' = [main EXCEPT
                              !.pc = "failed",
                              !.page = main.page \o
                                  <<st_error(<<"Error processing file", "ValueError">>)>>]
                /\ UNCHANGED heap
           ELSE \E r \in read_csv(f) :
                   IF r.exc # <<>>
                   THEN /\ main' = [main EXCEPT
                                      !.pc = "failed",
                                      !.page = main.page \o
                                          <<st_error(<<"Error processing file", r.exc[1]>>)>>]
                        /\ UNCHANGED heap
                   ELSE /\ main' = [main EXCEPT
                                      !.pc = "analyze",
                                      !.page = main.page \o
                                          <<st_success(<<"Successfully loaded">>)>>]
                        /\ heap' = [heap EXCEPT ![caller] = r.df]
    /\ UNCHANGED <<caller, analyzer, viz, ret, patterns>>

(* app.py:90-96 *)
Analyze ==
    /\ main.pc = "analyze"
    /\ \E nan_on_constant \in BOOLEAN :
          LET a == DataAnalyzer_init(heap, caller)
              b == basic_info(a.heap, a.self)
              s == statistical_summary(b.heap, b.self, nan_on_constant)
              p == detect_patterns(s.heap, s.self)
          IN  /\ heap' = p.heap
              /\ analyzer' = <<p.self>>
              /\ ret' = [op |-> "detect_patterns", val |-> p.ret]
              /\ patterns' = <<p.ret>>
              /\ main' = [main EXCEPT
                            !.pc = "tab1",
                            !.analysis_results =
                                <<[basic_info |-> b.ret,
                                   statistical_summary |-> s.ret,
                                   patterns |-> p.ret]>>]
    /\ UNCHANGED <<caller, viz>>

(* app.py:101-102, 144-187 *)
DisplayOverview ==
    /\ main.pc = "tab1"
    /\ main' = [main EXCEPT
                  !.pc = "tab2",
                  !.page = main.page \o <<st_section("Data Overview")>>]
    /\ UNCHANGED <<heap, caller, analyzer, viz, ret, patterns>>

(* app.py:104-108, 189-204 *)
DisplayAiInsights ==
    /\ main.pc = "tab2"
    /\ IF main.options.include_ai_insights
       THEN \E reply1 \in Replies, reply2 \in Replies :
               LET story == generate_data_story(main.analysis_results[1], reply1)
                   viz_suggestions == suggest_visualizations(main.analysis_results[1], reply2)
               IN  /\ main' = [main EXCEPT
                                 !.pc = "tab3",
                                 !.page = main.page \o
                                     <<st_section("AI-Generated Insights"),
                                       st_write(story), st_write(viz_suggestions)>>]
                   /\ ret' = [op |-> "suggest_visualizations", val |-> viz_suggestions]
       ELSE /\ main' = [main EXCEPT
                          !.pc = "tab3",
                          !.page = main.page \o <<st_info(<<"AI Insights disabled">>)>>]
            /\ UNCHANGED ret
    /\ UNCHANGED <<heap, caller, analyzer, viz, patterns>>

(* app.py:110-114, 206-243 *)
DisplayVisualizations ==
    /\ main.pc = "tab3"
    /\ IF main.options.include_visualizations
       THEN LET df == Deref(heap, caller)
                v == VisualizationEngine_init(heap, caller)
                o == create_overview_charts(v.heap, v.self)
                has_numerical == Len(select_dtypes(df, np_number)) > 0
                n == IF has_numerical
                     THEN create_numerical_analysis(o.heap, o.self)
                     ELSE [o EXCEPT !.ret = <<>>]
                has_categorical == Len(select_dtypes(df, {"object", "category"})) > 0
                c == IF has_categorical
                     THEN create_categorical_analysis(n.heap, n.self)
                     ELSE [n EXCEPT !.ret = <<>>]
                r == create_relationship_charts(c.heap, c.self)
                charts(s) == [k \in 1..Len(s) |-> st_plotly_chart(s[k])]
                shown ==
                    <<st_section("Data Visualizations")>>
                    \o (IF o.ret # <<>> THEN charts(o.ret)
                        ELSE <<st_info(<<"No overview charts to display.">>)>>)
                    \o (IF has_numerical THEN charts(n.ret)
                        ELSE <<st_info(<<"No numerical columns found.">>)>>)
                    \o (IF has_categorical THEN charts(c.ret)
                        ELSE <<st_info(<<"No categorical columns found.">>)>>)
                    \o charts(r.ret)
            IN  /\ heap' = r.heap
                /\ viz' = <<r.self>>
                /\ ret' = [op |-> "create_relationship_charts", val |-> r.ret]
                /\ main' = [main EXCEPT !.pc = "tab4", !.page = main.page \o shown]
       ELSE /\ main' = [main EXCEPT
                          !.pc = "tab4",
                          !.page = main.page \o <<st_info(<<"Visualizations disabled">>)>>]
            /\ UNCHANGED <<heap, viz, ret>>
    /\ UNCHANGED <<caller, analyzer, patterns>>

(* app.py:116-120, 245-253 *)
DisplaySuggestions ==
    /\ main.pc = "tab4"
    /\ IF main.options.include_suggestions
       THEN \E reply \in Replies :
               LET suggestions == suggest_next_steps(main.analysis_results[1], reply)
               IN  /\ main' = [main EXCEPT
                                 !.pc = "done",
                                 !.page = main.page \o
                                     <<st_section("Next Steps & Recommendations"),
                                       st_write(suggestions)>>]
                   /\ ret' = [op |-> "suggest_next_steps", val |-> suggestions]
       ELSE /\ main' = [main EXCEPT
                          !.pc = "done",
                          !.page = main.page \o <<st_info(<<"Suggestions disabled">>)>>]
            /\ UNCHANGED ret
    /\ UNCHANGED <<heap, caller, analyzer, viz, patterns>>

NextMain ==
    \/ LandingPage
    \/ CheckExtension
    \/ CheckSize
    \/ LoadData
    \/ Analyze
    \/ DisplayOverview
    \/ DisplayAiInsights
    \/ DisplayVisualizations
    \/ DisplaySuggestions

SpecMain == InitMain /\ [][NextMain]_vars

----------------------------------------------------------------------------
(* What the claims are stated over *)

AnalyzerDf == Deref(heap, analyzer[1].df)

IsNumeric(c) == c.dtype \in {"int64", "float64"}
IsCategorical(c) == c.dtype \in {"object", "category"}

(* The positions of a column's non-missing cells *)
Present(c) == {i \in 1..Len(c.vals) : c.vals[i] # NA}

(* The non-missing values of a column in original row order *)
Values(c) ==
    LET idx == SelectSeq([i \in 1..Len(c.vals) |-> i], LAMBDA i : i \in Present(c))
    IN  [k \in 1..Len(idx) |-> c.vals[idx[k]][1]]

Entries(findings, name) == SelectSeq(findings, LAMBDA f : f.column = name)

Returned(op) == ret.op = op

----------------------------------------------------------------------------
(* C1: for every numeric column, detect_patterns emits a trend finding     *)
(* exactly when the column's non-missing values, in row order, number at   *)
(* least 3 and every consecutive pair rises ('increasing') or every        *)
(* consecutive pair falls ('decreasing'); in every other case it emits     *)
(* none, and never more than one finding per column.                       *)

Rising(v) == Len(v) >= 3 /\ \A i \in 1..(Len(v) - 1) : v[i] < v[i + 1]
Falling(v) == Len(v) >= 3 /\ \A i \in 1..(Len(v) - 1) : v[i] > v[i + 1]

----------------------------------------------------------------------------
(* C2: for every numeric column with more than 5 non-missing values, the   *)
(* anomaly count reported by detect_patterns is the number of non-missing  *)
(* values v with |v - mean| > 3 * std over the column's non-missing        *)
(* values; a finding is emitted exactly when that count is positive, and   *)
(* none for a column with 5 or fewer non-missing values.                   *)
(* With n values of sum S and d(v) = n*v - S, |v - mean| > 3 * std reads   *)
(* (n - ddof) * d(v)^2 > 9 * (sum of the d^2), std having denominator      *)
(* n - ddof.                                                               *)

DevSq(v, i) == (Len(v) * v[i] - SumSeq(v)) * (Len(v) * v[i] - SumSeq(v))

Far(v, ddof) ==
    {i \in 1..Len(v) :
        (Len(v) - ddof) * DevSq(v, i) > 9 * SumSeq([j \in 1..Len(v) |-> DevSq(v, j)])}

AnomaliesAsCounted(ddof) ==
    Returned("detect_patterns") =>
        \A k \in 1..Len(AnalyzerDf.cols) :
            LET c == AnalyzerDf.cols[k]
                found == Entries(ret.val.anomalies, c.name)
                count == Cardinality(Far(Values(c), ddof))
            IN  IF IsNumeric(c) /\ Len(Values(c)) > 5 /\ count > 0
                THEN found = <<[column |-> c.name, anomalies_count |-> count]>>
                ELSE found = <<>>

(* C2 as claimed: the sample deviation, denominator n - 1 *)
C2_SampleStd == AnomaliesAsCounted(1)

(* C2 amended: the population deviation, denominator n *)
C2_PopulationStd == AnomaliesAsCounted(0)

(* An anomaly was reported for a value the sample deviation would pass *)
C2_Witness ==
    /\ Returned("detect_patterns")
    /\ ret.val.anomalies # <<>>
    /\ \E k \in 1..Len(AnalyzerDf.cols) :
          /\ Far(Values(AnalyzerDf.cols[k]), 0) # {}
          /\ Far(Values(AnalyzerDf.cols[k]), 1) = {}

----------------------------------------------------------------------------
(* C3: detect_patterns returns no correlation when the table has fewer     *)
(* than 2 numeric columns; otherwise exactly one finding for each pair of  *)
(* distinct numeric columns, the earlier column as var1, whose Pearson     *)
(* coefficient over the rows where neither value is missing is defined and *)
(* exceeds 0.7 in absolute value, and none for any other pair.             *)
(* Over the complete rows R, with cov = sum over i, j in R of              *)
(* (x_i - x_j)(y_i - y_j) (twice n times the co-moment), r^2 is            *)
(* cov(x,y)^2 / (cov(x,x) * cov(y,y)), undefined when a variance is 0.     *)

PairSum(x, y, z, w) ==
    LET n == Len(x)
        both(i) == x[i] # NA /\ y[i] # NA
        term(k) ==
            LET i == ((k - 1) \div n) + 1
                j == ((k - 1) % n) + 1
            IN  IF both(i) /\ both(j)
                THEN (z[i][1] - z[j][1]) * (w[i][1] - w[j][1])
                ELSE 0
    IN  SumSeq([k \in 1..(n * n) |-> term(k)])

Strong(x, y) ==
    LET cxy == PairSum(x, y, x, y)
        cxx == PairSum(x, y, x, x)
        cyy == PairSum(x, y, y, y)
    IN  /\ cxx > 0 /\ cyy > 0
        /\ 100 * cxy * cxy > 49 * cxx * cyy

C3_CorrelationFindings ==
    Returned("detect_patterns") =>
        LET cols == AnalyzerDf.cols
            num == {k \in 1..Len(cols) : IsNumeric(cols[k])}
            found == ret.val.correlations
            Of(i, j) == SelectSeq(found, LAMBDA f : f.var1 = cols[i].name /\ f.var2 = cols[j].name)
        IN  /\ Cardinality(num) < 2 => found = <<>>
            /\ \A i \in num : \A j \in num :
                  Len(Of(i, j)) = IF i < j /\ Strong(cols[i].vals, cols[j].vals) THEN 1 ELSE 0
            /\ \A f \in Range(found) :
                  \E i \in num : \E j \in num :
                      i < j /\ f.var1 = cols[i].name /\ f.var2 = cols[j].name

(* Three numeric columns, one with a missing cell: some pairs were         *)
(* reported, and some pair with a defined coefficient was not              *)
C3_Witness ==
    /\ Returned("detect_patterns")
    /\ Len(select_dtypes(AnalyzerDf, np_number)) = 3
    /\ Len(ret.val.correlations) \in {1, 2}
    /\ \E k \in 1..2 : Present(AnalyzerDf.cols[k]) # 1..AnalyzerDf.nrows
    /\ \E i \in 1..2 : \E j \in (i + 1)..3 :
          /\ ~isnan(corr(AnalyzerDf.cols[i].vals, AnalyzerDf.cols[j].vals))
          /\ ~Strong(AnalyzerDf.cols[i].vals, AnalyzerDf.cols[j].vals)

----------------------------------------------------------------------------
(* C4: for every non-empty sequence of non-missing values the outlier      *)
(* count is 0 when IQR = Q3 - Q1 is 0, and otherwise the number of values  *)
(* strictly below Q1 - 1.5*IQR or strictly above Q3 + 1.5*IQR, Q1 and Q3   *)
(* the 25th and 75th percentiles by linear interpolation between closest   *)
(* ranks; a value on a fence is not counted; 1,2,3,4,5,100 gives 1.        *)

(* The k-th smallest value *)
OrderStat(v, k) ==
    CHOOSE x \in Range(v) :
        /\ Cardinality({i \in 1..Len(v) : v[i] < x}) < k
        /\ Cardinality({i \in 1..Len(v) : v[i] <= x}) >= k

(* 4 times the q-th quartile: rank 1 + (n-1)*q/4, interpolated *)
Quartile4(v, q) ==
    LET lo == ((Len(v) - 1) * q) \div 4
        fr == ((Len(v) - 1) * q) % 4
    IN  IF fr = 0 THEN 4 * OrderStat(v, lo + 1)
        ELSE (4 - fr) * OrderStat(v, lo + 1) + fr * OrderStat(v, lo + 2)

Iqr4(v) == Quartile4(v, 3) - Quartile4(v, 1)

Outliers(v) ==
    {i \in 1..Len(v) :
        \/ 8 * v[i] < 2 * Quartile4(v, 1) - 3 * Iqr4(v)
        \/ 8 * v[i] > 2 * Quartile4(v, 3) + 3 * Iqr4(v)}

OnFence(v) ==
    {i \in 1..Len(v) :
        \/ 8 * v[i] = 2 * Quartile4(v, 1) - 3 * Iqr4(v)
        \/ 8 * v[i] = 2 * Quartile4(v, 3) + 3 * Iqr4(v)}

NumSummary(name) == (CHOOSE p \in Range(ret.val.numerical) : p[1] = name)[2]
CatSummary(name) == (CHOOSE p \in Range(ret.val.categorical) : p[1] = name)[2]

C4_OutlierCount ==
    Returned("statistical_summary") =>
        \A k \in 1..Len(AnalyzerDf.cols) :
            LET c == AnalyzerDf.cols[k]
                v == Values(c)
                count == NumSummary(c.name).outliers_count
            IN  (IsNumeric(c) /\ v # <<>>) =>
                    /\ count = IF Iqr4(v) = 0 THEN 0 ELSE Cardinality(Outliers(v))
                    /\ count <= Len(v) - Cardinality(OnFence(v))
                    /\ v = <<1, 2, 3, 4, 5, 100>> => count = 1

(* The column 1,2,3,4,5,100 was summarised with one outlier *)
C4_Witness ==
    /\ Returned("statistical_summary")
    /\ IsNumeric(AnalyzerDf.cols[1])
    /\ Values(AnalyzerDf.cols[1]) = <<1, 2, 3, 4, 5, 100>>
    /\ NumSummary("x").outliers_count = 1

----------------------------------------------------------------------------
(* C5: for a numeric column whose non-missing values are all equal (one    *)
(* non-missing value included) statistical_summary reports                 *)
(* outliers_count = 0 and std = 0, and every other statistic is a defined  *)
(* value, not NaN.                                                         *)

Defined(x) == x # None /\ x # NaN

C5_ConstantColumn ==
    Returned("statistical_summary") =>
        \A k \in 1..Len(AnalyzerDf.cols) :
            LET c == AnalyzerDf.cols[k]
                v == Values(c)
                sm == NumSummary(c.name)
            IN  (IsNumeric(c) /\ v # <<>> /\ \A i \in 1..Len(v) : v[i] = v[1]) =>
                    /\ sm.outliers_count = 0
                    /\ sm.std # None /\ FEq(sm.std, <<0, 1>>)
                    /\ Defined(sm.mean) /\ Defined(sm.median)
                    /\ Defined(sm.min) /\ Defined(sm.max)
                    /\ Defined(sm.skewness) /\ Defined(sm.kurtosis)

----------------------------------------------------------------------------
(* C6: for a column whose values are all missing, statistical_summary      *)
(* reports, numeric: mean, median, std, min, max, skewness, kurtosis None  *)
(* and outliers_count 0; categorical: unique_count 0, most_frequent None,  *)
(* value_counts empty; detect_patterns emits no trend and no anomaly       *)
(* finding for it.                                                         *)

AllMissing(c) == Present(c) = {}

C6_AllMissingColumn ==
    \A k \in 1..(IF analyzer = <<>> THEN 0 ELSE Len(AnalyzerDf.cols)) :
        LET c == AnalyzerDf.cols[k]
        IN  AllMissing(c) =>
              /\ (Returned("statistical_summary") /\ IsNumeric(c)) =>
                    NumSummary(c.name) =
                        [mean |-> None, median |-> None, std |-> None, min |-> None,
                         max |-> None, skewness |-> None, kurtosis |-> None,
                         outliers_count |-> 0]
              /\ (Returned("statistical_summary") /\ IsCategorical(c)) =>
                    CatSummary(c.name) =
                        [unique_count |-> 0, most_frequent |-> None, value_counts |-> <<>>]
              /\ Returned("detect_patterns") =>
                    /\ Entries(ret.val.trends, c.name) = <<>>
                    /\ Entries(ret.val.anomalies, c.name) = <<>>

(* A text column of several rows, all missing, was summarised *)
C6_Witness ==
    /\ Returned("statistical_summary")
    /\ AnalyzerDf.nrows >= 2
    /\ IsCategorical(AnalyzerDf.cols[1])
    /\ AllMissing(AnalyzerDf.cols[1])
    /\ CatSummary("x").unique_count = 0

----------------------------------------------------------------------------
(* C7: for a categorical column with a non-missing value, value_counts     *)
(* lists at most 10 non-missing values in descending frequency, ties in    *)
(* first-encountered row order, and most_frequent is its first key.        *)

FirstAt(c, x) == CHOOSE i \in Present(c) : c.vals[i] = <<x>> /\ \A j \in Present(c) : c.vals[j] = <<x>> => i <= j

C7_SameTieBreak ==
    Returned("statistical_summary") =>
        \A k \in 1..Len(AnalyzerDf.cols) :
            LET c == AnalyzerDf.cols[k]
                sm == CatSummary(c.name)
                vc == sm.value_counts
            IN  (IsCategorical(c) /\ Present(c) # {}) =>
                    /\ Len(vc) <= 10
                    /\ \A i \in 1..Len(vc) :
                          vc[i][2] = Cardinality({r \in Present(c) : c.vals[r] = <<vc[i][1]>>})
                    /\ \A i \in 1..(Len(vc) - 1) :
                          \/ vc[i][2] > vc[i + 1][2]
                          \/ /\ vc[i][2] = vc[i + 1][2]
                             /\ FirstAt(c, vc[i][1]) < FirstAt(c, vc[i + 1][1])
                    /\ sm.most_frequent = <<vc[1][1]>>

----------------------------------------------------------------------------
(* C8: basic_info maps each column to the number of its missing cells (the *)
(* counts add up to the missing cells of the table), and duplicate_rows is *)
(* the number of rows equal in every column to some earlier row: 0 when no *)
(* row repeats and 0 for an empty table (no row or no column).             *)

MissingCells(df) ==
    {<<i, k>> \in (1..df.nrows) \X (1..Len(df.cols)) : df.cols[k].vals[i] = NA}

RepeatedRows(df) ==
    {i \in 1..df.nrows :
        \E j \in 1..(i - 1) : \A k \in 1..Len(df.cols) : df.cols[k].vals[j] = df.cols[k].vals[i]}

C8_BasicInfo ==
    Returned("basic_info") =>
        LET df == AnalyzerDf
            mv == ret.val.missing_values
        IN  /\ Len(mv) = Len(df.cols)
            /\ \A k \in 1..Len(df.cols) :
                  mv[k] = <<df.cols[k].name,
                            Cardinality({i \in 1..df.nrows : df.cols[k].vals[i] = NA})>>
            /\ SumSeq([k \in 1..Len(mv) |-> mv[k][2]]) = Cardinality(MissingCells(df))
            /\ ret.val.duplicate_rows =
                  IF df.nrows = 0 \/ Len(df.cols) = 0 THEN 0
                  ELSE Cardinality(RepeatedRows(df))

(* A table with a repeated row, a row that occurs once and a missing cell *)
C8_Witness ==
    /\ Returned("basic_info")
    /\ ret.val.duplicate_rows >= 1
    /\ ret.val.duplicate_rows < AnalyzerDf.nrows - 1
    /\ MissingCells(AnalyzerDf) # {}

----------------------------------------------------------------------------
(* C9: two calls of detect_patterns on the same DataAnalyzer, whatever     *)
(* calls of basic_info and statistical_summary come between them, return   *)
(* the same findings in the same order.                                    *)

C9_DetectPatternsRepeats ==
    Len(patterns) = 2 => patterns[1] = patterns[2]

(* detect_patterns returned twice, with findings, on a table with missing  *)
(* cells                                                                   *)
C9_Witness ==
    /\ Len(patterns) = 2
    /\ Returned("detect_patterns")
    /\ patterns[2].correlations # <<>>
    /\ patterns[2].trends # <<>>
    /\ MissingCells(AnalyzerDf) # {}

----------------------------------------------------------------------------
(* C10: the table is copied when DataAnalyzer and VisualizationEngine are  *)
(* constructed, and no call changes the caller's table or a component's    *)
(* copy: cells, column order and column kinds stay as they were.           *)

Copied(obj) ==
    obj # <<>> =>
        /\ obj[1].df # caller
        /\ heap[obj[1].df] # <<>>
        /\ Deref(heap, obj[1].df) = Deref(heap, caller)

C10_SourceTableUnchanged ==
    /\ [](/\ Copied(analyzer)
          /\ Copied(viz)
          /\ (analyzer # <<>> /\ viz # <<>>) => analyzer[1].df # viz[1].df)
    /\ [][\A r \in Refs : heap[r] # <<>> => heap'[r] = heap[r]]_vars

(* Both components were constructed and every kind of call has returned *)
C10_Witness ==
    /\ analyzer # <<>>
    /\ viz # <<>>
    /\ Len(patterns) = 2
    /\ Returned("create_relationship_charts")
    /\ ret.val # <<>>
    /\ heap["analyzer"] = heap[caller]
    /\ heap["viz"] = heap[caller]

----------------------------------------------------------------------------
(* C13: within one analysis pass every column is classified as exactly one *)
(* of numeric or categorical: its name is a key of exactly one of          *)
(* statistical_summary's 'numerical' and 'categorical' maps, whatever its  *)
(* declared type, and the columns detect_patterns treats as numeric are    *)
(* the keys of 'numerical'.                                                *)

Keys(dict) == {dict[i][1] : i \in 1..Len(dict)}

(* The columns detect_patterns works on (numeric_df, line 81) *)
PatternColumns == Keys([k \in 1..Len(select_dtypes(AnalyzerDf, np_number)) |->
                          <<select_dtypes(AnalyzerDf, np_number)[k].name>>])

C13_EveryColumnHasOneKind ==
    Returned("statistical_summary") =>
        /\ \A k \in 1..Len(AnalyzerDf.cols) :
              LET name == AnalyzerDf.cols[k].name
              IN  (name \in Keys(ret.val.numerical)) # (name \in Keys(ret.val.categorical))
        /\ PatternColumns = Keys(ret.val.numerical)

----------------------------------------------------------------------------
(* C11: in the upload flow the table is parsed and analysed only after     *)
(* both input checks have been performed and passed: on every path that    *)
(* reaches parsing the file's extension is in the allow-list and its size  *)
(* is within the configured maximum; a file failing either check is        *)
(* rejected with a user-facing message and is never parsed.                *)

PageHas(st, text) ==
    \E i \in 1..Len(main.page) : main.page[i].st = st /\ main.page[i].body[1] = text

(* read_csv was called: it gave a table or raised an error of its own *)
ReachedParsing ==
    \/ PageHas("success", "Successfully loaded")
    \/ \E i \in 1..Len(main.page) :
          /\ main.page[i].st = "error"
          /\ main.page[i].body[1] = "Error processing file"
          /\ main.page[i].body[2] \in {"EmptyDataError", "ParserError"}

(* The name ends in a dot followed by csv in either case, and something   *)
(* other than dots stands before that dot                                 *)
CsvExtension(name) ==
    /\ Len(name) >= 3
    /\ name[Len(name) - 1] = "."
    /\ name[Len(name)] \in {"csv", "CSV"}
    /\ \E j \in 1..(Len(name) - 2) : name[j] # "."

LimitBytes == MAX_FILE_SIZE * MiB

Rejected ==
    /\ main.pc \in {"returned", "failed"}
    /\ main.page # <<>>
    /\ main.page[Len(main.page)].st = "error"
    /\ ~ReachedParsing
    /\ heap[caller] = <<>>
    /\ analyzer = <<>>

ChecksGuardParsing(size_passes) ==
    main.uploaded_file # None =>
        LET name == main.uploaded_file[1].name
        IN  /\ ReachedParsing => CsvExtension(name) /\ size_passes
            /\ heap[caller] # <<>> => ReachedParsing
            /\ analyzer # <<>> => heap[caller] # <<>>
            /\ (main.pc # "upload" /\ ~CsvExtension(name)) =>
                  Rejected /\ PageHas("error", "Unsupported file format")
            /\ (main.pc \notin {"upload", "size", "load"} /\ ~size_passes) => Rejected

(* C11 as stated: the size of a parsed file is below the maximum *)
C11_SizeBelowMaximum ==
    ChecksGuardParsing(main.uploaded_file[1].size < LimitBytes)

(* C11, amended: the size of a parsed file is at most the maximum *)
C11_SizeAtMostMaximum ==
    ChecksGuardParsing(main.uploaded_file[1].size <= LimitBytes)

C11_Witness ==
    /\ main.pc = "done"
    /\ main.uploaded_file # None
    /\ main.uploaded_file[1].name = <<"a", ".", "CSV">>
    /\ main.uploaded_file[1].size = LimitBytes
    /\ PageHas("success", "Successfully loaded")
    /\ analyzer # <<>>

----------------------------------------------------------------------------
(* C12: a failure of the narrative service never aborts the pipeline: for  *)
(* every outcome of the HTTP call generate_data_story,                     *)
(* suggest_visualizations and suggest_next_steps return a string, and in   *)
(* main the overview, visualization and next-steps sections are produced   *)
(* whatever the AI-insights section did.                                   *)

(* Once the analysis is made, main runs to its end, with every section    *)
(* that is switched on                                                     *)
PipelineContinues ==
    main.analysis_results # <<>> =>
        /\ main.pc \in {"tab1", "tab2", "tab3", "tab4", "done"}
        /\ main.pc \in {"tab2", "tab3", "tab4", "done"} =>
              PageHas("subheader", "Data Overview")
        /\ (main.pc \in {"tab4", "done"} /\ main.options.include_visualizations) =>
              PageHas("subheader", "Data Visualizations")
        /\ (main.pc = "done" /\ main.options.include_suggestions) =>
              PageHas("subheader", "Next Steps & Recommendations")

NarrativeReturnsStr ==
    /\ ret.op \in {"suggest_visualizations", "suggest_next_steps"} => ret.val.type = "str"
    /\ \A i \in 1..Len(main.page) :
          main.page[i].st = "write" => main.page[i].body = <<"str">>

C12_NarrativeFailureContained ==
    /\ NarrativeReturnsStr
    /\ PipelineContinues

====
